---- MODULE Spec2Model ----
(***************************************************************************)
(* Model of the abstract-extraction service (src/app.py, src/insight_db.py)*)
(*                                                                         *)
(* Texts are sequences of code points (0..127).  Offsets are 0-based, as   *)
(* in the source: Slice(t, a, b) is Python's t[a:b], CharAt(t, i) is t[i]. *)
(* An offset of -1 stands for "no match" (re.search returning None).       *)
(***************************************************************************)
EXTENDS Integers, Sequences, FiniteSets, TLC

VARIABLES
    text,       \* the input of a call: a text, or a document's text layer
    phase,      \* "input", or which function has been called on it
    doc_ocr,    \* what OCR of the document's pages would give
    clean,      \* the value remove_illegal_chars returned
    full_text,  \* the value extract_text_from_pdf returned
    abstract,   \* the value extract_abstract returned
    pc,         \* where each /extract-abstract request is in its handler
    upload,     \* what each request carries: the file part, its name, its document
    uploads,    \* the upload folder: file name -> content, or NoFile
    work,       \* the locals of each request's handler
    db,         \* the rows of table uploads_new, in insertion order
    reports     \* how the /download_result requests ended, in order

textVars == <<text, phase, doc_ocr, clean, full_text, abstract>>

reqVars == <<pc, upload, uploads, work, db, reports>>

vars ==
    <<text, phase, doc_ocr, clean, full_text, abstract, pc, upload, uploads, work, db, reports>>

(***************************************************************************)
(* Bounds of the model                                                     *)
(***************************************************************************)
\* longest text of the fragment family, in fragments
MaxAtoms == 3

\* longest text of the line family, in lines
MaxLines == 4

\* longest text of the control-character family, in characters
MaxChars == 2

\* how many words beyond WordCap the long texts have
MaxExtraWords == 1

\* how many /download_result requests are made
MaxDownloads == 1

(***************************************************************************)
(* Characters and slices                                                   *)
(***************************************************************************)
Slice(t, a, b) == SubSeq(t, a + 1, b)

CharAt(t, i) == t[i + 1]

MinOf(S) == CHOOSE x \in S : \A y \in S : x <= y

MaxOf(S) == CHOOSE x \in S : \A y \in S : x >= y

\* \s of a str pattern, str.isspace, str.split, str.strip (ASCII range)
IsSpace(c) == c \in {9, 10, 11, 12, 13, 28, 29, 30, 31, 32}

\* \w of a str pattern (ASCII range)
IsWordChar(c) ==
    \/ (c >= 48 /\ c <= 57)
    \/ (c >= 65 /\ c <= 90)
    \/ c = 95
    \/ (c >= 97 /\ c <= 122)

\* (?i): letters compare by their lower case
Lower(c) == IF c >= 65 /\ c <= 90 THEN c + 32 ELSE c

\* the class without its last member, \x7F
IllegalClass_NoDel(c) ==
    \/ (c >= 0 /\ c <= 8)
    \/ c = 11
    \/ c = 12
    \/ (c >= 14 /\ c <= 31)

\* the character class [\x00-\x08\x0B\x0C\x0E-\x1F\x7F]
IllegalClass(c) ==
    \/ (c >= 0 /\ c <= 8)
    \/ c = 11
    \/ c = 12
    \/ (c >= 14 /\ c <= 31)
    \/ c = 127

\* re.sub(class, "", text): every match of the class is dropped
remove_illegal_chars(t) == SelectSeq(t, LAMBDA c : ~IllegalClass(c))

(***************************************************************************)
(* Regular-expression pieces                                               *)
(***************************************************************************)
\* greedy \s* from offset i: the offset of the first non-space at or after i
SkipSpace(t, i) ==
    CHOOSE j \in i..Len(t) :
        /\ (j = Len(t) \/ ~IsSpace(CharAt(t, j)))
        /\ \A k \in i..(j - 1) : IsSpace(CharAt(t, k))

\* a literal (given in lower case) matched case-insensitively at offset i:
\* the end offset of the match, -1 when it does not match
LitAt(t, i, lit) ==
    IF /\ i >= 0
       /\ i + Len(lit) <= Len(t)
       /\ \A k \in 1..Len(lit) : Lower(CharAt(t, i + k - 1)) = lit[k]
    THEN i + Len(lit)
    ELSE -1

\* X\s*Y
LitSpaceLit(t, i, x, y) ==
    LET a == LitAt(t, i, x)
    IN  IF a < 0 THEN -1 ELSE LitAt(t, SkipSpace(t, a), y)

\* \b at offset i
WordBoundary(t, i) ==
    (i > 0 /\ IsWordChar(CharAt(t, i - 1))) # (i < Len(t) /\ IsWordChar(CharAt(t, i)))

\* ^ under (?m)
LineStart(t, i) == i = 0 \/ CharAt(t, i - 1) = 10

\* $ under (?m)
LineEnd(t, i) == i = Len(t) \/ CharAt(t, i) = 10

lit_abstract == <<97, 98, 115, 116, 114, 97, 99, 116>>
lit_keywords == <<107, 101, 121, 119, 111, 114, 100, 115>>
lit_kata == <<107, 97, 116, 97>>
lit_kunci == <<107, 117, 110, 99, 105>>
lit_introduction == <<105, 110, 116, 114, 111, 100, 117, 99, 116, 105, 111, 110>>
lit_latar == <<108, 97, 116, 97, 114>>
lit_belakang == <<98, 101, 108, 97, 107, 97, 110, 103>>
lit_chapter == <<99, 104, 97, 112, 116, 101, 114>>
lit_bab == <<98, 97, 98>>
lit_notation == <<110, 111, 116, 97, 116, 105, 111, 110>>
lit_background == <<98, 97, 99, 107, 103, 114, 111, 117, 110, 100>>

\* A\s*B\s*S\s*T\s*R\s*A\s*C\s*T from letter k on, at offset i: end offset or -1
RECURSIVE MarkerLetters(_, _, _)
MarkerLetters(t, i, k) ==
    IF i >= Len(t) \/ Lower(CharAt(t, i)) # lit_abstract[k] THEN -1
    ELSE IF k = Len(lit_abstract) THEN i + 1
    ELSE MarkerLetters(t, SkipSpace(t, i + 1), k + 1)

\* (?i)\bA\s*B\s*S\s*T\s*R\s*A\s*C\s*T\b matched at offset i: end offset or -1
MarkerEndAt(t, i) ==
    IF ~WordBoundary(t, i) THEN -1
    ELSE LET e == MarkerLetters(t, i, 1)
         IN  IF e >= 0 /\ WordBoundary(t, e) THEN e ELSE -1

\* re.search(marker, text): the start of the leftmost match, -1 when none
AbstractMatchStart(t) ==
    LET S == {i \in 0..(Len(t) - 1) : MarkerEndAt(t, i) >= 0}
    IN  IF S = {} THEN -1 ELSE MinOf(S)

\* abstract_match.end()
AbstractMatchEnd(t) ==
    LET i == AbstractMatchStart(t)
    IN  IF i < 0 THEN -1 ELSE MarkerEndAt(t, i)

\* (Keywords|Kata\s*Kunci) at offset i; what follows it, \s*[:\-]?\s*(.*)?$
\* and the closing \s*[:\-]?\s*$, matches after any text: (.*)? runs to the
\* end of the line
KeywordsAt(t, i) ==
    LitAt(t, i, lit_keywords) >= 0 \/ LitSpaceLit(t, i, lit_kata, lit_kunci) >= 0

\* (?:Chapter|Bab)?\s*(?:1|I)\.?\s+(?:Introduction|Latar\s*Belakang) at offset
\* i: the set of end offsets
NumberedEnds(t, i) ==
    LET a0 == IF LitAt(t, i, lit_chapter) >= 0 THEN LitAt(t, i, lit_chapter)
              ELSE IF LitAt(t, i, lit_bab) >= 0 THEN LitAt(t, i, lit_bab)
              ELSE i
        a1 == SkipSpace(t, a0)
    IN  IF a1 >= Len(t) \/ Lower(CharAt(t, a1)) \notin {49, 105} THEN {}
        ELSE LET a2 == a1 + 1
                 a3 == IF a2 < Len(t) /\ CharAt(t, a2) = 46 THEN a2 + 1 ELSE a2
                 a4 == SkipSpace(t, a3)
             IN  IF a4 = a3 THEN {}
                 ELSE {LitAt(t, a4, lit_introduction),
                       LitSpaceLit(t, a4, lit_latar, lit_belakang)} \ {-1}

\* the second alternative's headings at offset i: the set of end offsets
HeadingEnds(t, i) ==
    ({LitAt(t, i, lit_introduction),
      LitSpaceLit(t, i, lit_latar, lit_belakang),
      LitSpaceLit(t, i, lit_chapter, <<49>>),
      LitSpaceLit(t, i, lit_bab, <<49>>),
      LitAt(t, i, lit_notation),
      LitAt(t, i, lit_background)} \ {-1})
    \cup NumberedEnds(t, i)

\* \s*[:\-]?\s*$ from offset q
HeadingTail(t, q) ==
    LET r == SkipSpace(t, q)
    IN  \/ \E j \in q..r : LineEnd(t, j)
        \/ /\ r < Len(t)
           /\ CharAt(t, r) \in {58, 45}
           /\ \E j \in (r + 1)..SkipSpace(t, r + 1) : LineEnd(t, j)

\* stop_heading_pattern matched at offset i (the ^ aside)
HeadingAt(t, i) ==
    \/ KeywordsAt(t, i)
    \/ \E q \in HeadingEnds(t, i) : HeadingTail(t, q)

\* re.search(stop_heading_pattern, t).start(): the leftmost line start of t
\* at which the pattern matches, -1 when none
StopStart(t) ==
    LET S == {i \in 0..(Len(t) - 1) : LineStart(t, i) /\ HeadingAt(t, i)}
    IN  IF S = {} THEN -1 ELSE MinOf(S)

(***************************************************************************)
(* str methods                                                             *)
(***************************************************************************)
\* the offset just after the last non-space character, 0 when there is none
TrimEnd(t) ==
    LET S == {j \in 1..Len(t) : ~IsSpace(t[j])}
    IN  IF S = {} THEN 0 ELSE MaxOf(S)

\* str.rstrip()
RStrip(t) == Slice(t, 0, TrimEnd(t))

\* a strip() left out
Strip_Missing(t) == t

\* str.strip()
Strip(t) == Slice(t, SkipSpace(t, 0), IF TrimEnd(t) = 0 THEN Len(t) ELSE TrimEnd(t))

\* str.split(): the maximal runs of non-space characters, in order
Split(t) ==
    LET offsets == [i \in 1..Len(t) |-> i - 1]
        starts == SelectSeq(offsets, LAMBDA i :
                      ~IsSpace(CharAt(t, i)) /\ (i = 0 \/ IsSpace(CharAt(t, i - 1))))
        ends == SelectSeq(offsets, LAMBDA i :
                      ~IsSpace(CharAt(t, i)) /\ (i = Len(t) - 1 \/ IsSpace(CharAt(t, i + 1))))
    IN  [k \in 1..Len(starts) |-> Slice(t, starts[k], ends[k] + 1)]

\* " ".join(words)
RECURSIVE JoinSpace(_)
JoinSpace(ws) ==
    IF ws = <<>> THEN <<>>
    ELSE IF Len(ws) = 1 THEN ws[1]
    ELSE LET h == Len(ws) \div 2
         IN  JoinSpace(SubSeq(ws, 1, h)) \o <<32>> \o JoinSpace(SubSeq(ws, h + 1, Len(ws)))

\* the word-count cap of the fallbacks
WordCap == 300

\* the slice [:n] left out
FirstWords_NoCap(ws, n) == ws

\* words[:n]
FirstWords(ws, n) == SubSeq(ws, 1, IF Len(ws) < n THEN Len(ws) ELSE n)

\* words[-n:]
LastWords(ws, n) == SubSeq(ws, IF Len(ws) < n THEN 1 ELSE Len(ws) - n + 1, Len(ws))

\* the pattern written as \n\n: only adjacent newlines match
LastParaEnd_Adjacent(pre) ==
    LET S == {j \in 1..(Len(pre) - 1) : CharAt(pre, j) = 10 /\ CharAt(pre, j - 1) = 10}
    IN  IF S = {} THEN -1 ELSE MaxOf(S) + 1

\* list(re.finditer(r'\n\s*\n', pre))[-1].end(): every run of white space
\* holding two newlines or more gives one match, from its first newline to
\* its last; -1 when there is no match
LastParaEnd(pre) ==
    LET S == {j \in 1..(Len(pre) - 1) :
                /\ CharAt(pre, j) = 10
                /\ \E i \in 0..(j - 1) :
                      /\ CharAt(pre, i) = 10
                      /\ \A k \in i..j : IsSpace(CharAt(pre, k))}
    IN  IF S = {} THEN -1 ELSE MaxOf(S) + 1

(***************************************************************************)
(* extract_abstract                                                        *)
(***************************************************************************)
extract_abstract(t) ==
    LET abstract_start == AbstractMatchEnd(t)
    IN  IF abstract_start >= 0
        THEN LET rest == Slice(t, abstract_start, Len(t))
                 stop_after_abstract == StopStart(rest)
             IN  IF stop_after_abstract >= 0
                 THEN Strip(Slice(t, abstract_start, abstract_start + stop_after_abstract))
                 ELSE JoinSpace(FirstWords(Split(rest), WordCap))
        ELSE LET stop_match == StopStart(t)
             IN  IF stop_match >= 0
                 THEN LET pre == RStrip(Slice(t, 0, stop_match))
                          para == LastParaEnd(pre)
                      IN  IF para >= 0
                          THEN Strip(Slice(pre, para, Len(pre)))
                          ELSE JoinSpace(LastWords(Split(pre), WordCap))
                 ELSE JoinSpace(FirstWords(Split(t), WordCap))

\* extract_text_from_pdf: the text layer, sanitized; no other path
extract_text_from_pdf(layer) == remove_illegal_chars(layer)

(***************************************************************************)
(* Input texts                                                             *)
(***************************************************************************)
RECURSIVE Flatten(_)
Flatten(parts) ==
    IF parts = <<>> THEN <<>> ELSE Head(parts) \o Flatten(Tail(parts))

RECURSIVE JoinLines(_)
JoinLines(ls) ==
    IF ls = <<>> THEN <<>>
    ELSE IF Len(ls) = 1 THEN ls[1]
    ELSE ls[1] \o <<10>> \o JoinLines(Tail(ls))

SeqsUpTo(S, n) == UNION {[1..k -> S] : k \in 0..n}

txt_Abstract == <<65, 98, 115, 116, 114, 97, 99, 116>>
txt_Keywords == <<75, 101, 121, 119, 111, 114, 100, 115>>
txt_Introduction == <<73, 110, 116, 114, 111, 100, 117, 99, 116, 105, 111, 110>>

\* "Abstract", "Keywords", "Introduction", "1", "x", " ", "\n", DEL
Atoms ==
    {txt_Abstract, txt_Keywords, txt_Introduction, <<49>>, <<120>>, <<32>>, <<10>>, <<127>>}

AtomTexts == {Flatten(p) : p \in SeqsUpTo(Atoms, MaxAtoms)}

\* "", " ", "x", "x y", "Abstract", "Abstract 1", "Keywords: x", "Introduction"
Lines ==
    {<<>>, <<32>>, <<120>>, <<120, 32, 121>>, txt_Abstract,
     txt_Abstract \o <<32, 49>>, txt_Keywords \o <<58, 32, 120>>, txt_Introduction}

LineTexts == {JoinLines(p) : p \in SeqsUpTo(Lines, MaxLines)}

\* the ends of the ranges of the illegal class, their neighbours, and a letter
EdgeChars == {0, 8, 9, 10, 11, 12, 13, 14, 31, 32, 65, 126, 127}

CharTexts == SeqsUpTo(EdgeChars, MaxChars)

\* n words "x" separated by single spaces
ManyWords(n) == JoinSpace([k \in 1..n |-> <<120>>])

\* texts of WordCap words and more, after a marker, before a stop heading,
\* after a blank line, or bare
LongTexts ==
    {pre \o ManyWords(WordCap + k) \o post :
        k \in 0..MaxExtraWords,
        pre \in {<<>>, txt_Abstract \o <<10>>, <<121, 10, 10>>},
        post \in {<<>>, <<10>> \o txt_Keywords}}

Inputs == AtomTexts \cup LineTexts \cup CharTexts \cup LongTexts

\* the text OCR of a document's pages gives: nothing, or "ocr"
OcrOutputs == {<<>>, <<111, 99, 114>>}

NoValue == <<-1>>

(***************************************************************************)
(* The /extract-abstract handler and what it calls                         *)
(***************************************************************************)
\* the requests in flight
Reqs == {"r1", "r2"}

\* the file names clients send
RawNames == {"", "paper.pdf", "../paper.pdf", "..", "LOGO_SC.jpg"}

\* werkzeug's secure_filename on those names: path separators become
\* spaces, the words are joined with "_", and leading and trailing "." and
\* "_" are stripped
secure_filename(raw) ==
    CASE raw = "paper.pdf" -> "paper.pdf"
      [] raw = "../paper.pdf" -> "paper.pdf"
      [] raw = "LOGO_SC.jpg" -> "LOGO_SC.jpg"
      [] OTHER -> ""

\* the images the report reads from the upload folder: logo_path,
\* footer_path, divider_path
AssetNames == {"LOGO_SC.jpg", "footer.png", "divider.png"}

\* the names files of the upload folder can have here
FileNames == ({secure_filename(raw) : raw \in RawNames} \ {""}) \cup AssetNames

\* the documents clients send: one with a text layer, a scan without one,
\* and a file that is no PDF
Docs == {"paper", "scan", "broken"}

\* "Abstract\nx y\nKeywords: x"
txt_paper ==
    txt_Abstract \o <<10, 120, 32, 121, 10>> \o txt_Keywords \o <<58, 32, 120>>

\* extract_text_with_fitz on the content of a file; Unreadable when
\* fitz.open raises
Unreadable == <<-2>>

extract_text_with_fitz(content) ==
    CASE content = "paper" -> txt_paper
      [] content = "scan" -> <<>>
      [] OTHER -> Unreadable

NoFile == [doc |-> "none", writer |-> "none"]

\* an image put into the upload folder with the application
Asset == [doc |-> "image", writer |-> "deploy"]

NoUpload == [has_file |-> FALSE, raw |-> "", doc |-> "none"]

NoResult == [status |-> "none"]

NoResponse == [kind |-> "none"]

\* score > 30 selects the goals logged with the upload
ScoreThreshold == 30

\* what the classifier endpoint can answer.  predictions are the pairs of
\* p["sdg"]["label"] and p["prediction"], the latter in units of 1/10000
Predictions == {[label |-> "Goal 1", prediction |-> 4512], [label |-> "Goal 13", prediction |-> 1250]}

Responses ==
    {[kind |-> "answer", status_code |-> 200, predictions |-> Predictions],
     [kind |-> "answer", status_code |-> 500, predictions |-> Predictions],
     [kind |-> "malformed", status_code |-> 200, predictions |-> {}],
     [kind |-> "raise", status_code |-> 0, predictions |-> {}]}

\* the status test left out
classify_with_aurora_AnyStatus(resp) ==
    IF resp.kind = "raise" THEN {}
    ELSE IF resp.kind = "malformed" THEN {}
    ELSE {[label |-> p.label, score |-> p.prediction] : p \in resp.predictions}

\* classify_with_aurora, given what requests.post does: the scores
\* round(prediction * 100, 2), here in units of 1/100, by label
classify_with_aurora(resp) ==
    IF resp.kind = "raise" THEN {}
    ELSE IF resp.status_code = 200
         THEN IF resp.kind = "malformed" THEN {}
              ELSE {[label |-> p.label, score |-> p.prediction] : p \in resp.predictions}
         ELSE {}

SuccessResult(abs, sdg_result) ==
    [status |-> "success", abstract |-> abs, sdg |-> sdg_result]

\* the handler answering as if nothing had failed
ErrorResult_AsSuccess(message) ==
    [status |-> "success", abstract |-> <<>>, sdg |-> {}]

ErrorResult(message) == [status |-> "error", message |-> message]

\* int(sdg.replace("Goal ", ""))
GoalNumber(label) ==
    CASE label = "Goal 1" -> 1
      [] label = "Goal 13" -> 13

\* sdg_list of the handler
SdgList(result) ==
    IF result.status = "success"
    THEN {GoalNumber(s.label) : s \in {x \in result.sdg : x.score > ScoreThreshold * 100}}
    ELSE {}

\* result["submission_id"] = submission_id
Reply(result, id) ==
    IF result.status = "success"
    THEN [status |-> "success", abstract |-> result.abstract, sdg |-> result.sdg,
          submission_id |-> id]
    ELSE [status |-> "error", message |-> result.message, submission_id |-> id]

NoWork ==
    [filename |-> "", read_from |-> "none", full_text |-> NoValue, abstract |-> NoValue,
     raised |-> "none", calls |-> 0, response |-> NoResponse, result |-> NoResult,
     submission_id |-> 0, reply |-> NoResult]

InitReq ==
    /\ pc = [r \in Reqs |-> "idle"]
    /\ upload = [r \in Reqs |-> NoUpload]
    /\ uploads = [n \in FileNames |-> IF n \in AssetNames THEN Asset ELSE NoFile]
    /\ work = [r \in Reqs |-> NoWork]
    /\ db = <<>>
    /\ reports = <<>>

IdleText ==
    /\ text = <<>>
    /\ phase = "idle"
    /\ doc_ocr = NoValue
    /\ clean = NoValue
    /\ full_text = NoValue
    /\ abstract = NoValue

\* lines 200-205: a request without file part, or with an empty file name,
\* is answered 400 at once
Reject(r) ==
    /\ pc[r] = "idle"
    /\ \E has \in BOOLEAN :
          /\ upload' = [upload EXCEPT ![r] = [has_file |-> has, raw |-> "", doc |-> "none"]]
          /\ work' = [work EXCEPT ![r].reply =
                        ErrorResult(IF has THEN "Filename is empty." ELSE "No file uploaded.")]
    /\ pc' = [pc EXCEPT ![r] = "rejected"]
    /\ UNCHANGED <<uploads, db>>
    /\ UNCHANGED <<reports, textVars>>

\* lines 200-208: a request with a named file passes validation
Accept(r) ==
    /\ pc[r] = "idle"
    /\ \E raw \in RawNames \ {""}, doc \in Docs :
          /\ upload' = [upload EXCEPT ![r] = [has_file |-> TRUE, raw |-> raw, doc |-> doc]]
          /\ work' = [work EXCEPT ![r].filename = secure_filename(raw)]
    /\ pc' = [pc EXCEPT ![r] = "save"]
    /\ UNCHANGED <<uploads, db>>
    /\ UNCHANGED <<reports, textVars>>

\* line 209: file.save(file_path) writes the file, replacing what is there
SaveOk(r) ==
    /\ pc[r] = "save"
    /\ work[r].filename # ""
    /\ uploads' = [uploads EXCEPT ![work[r].filename] = [doc |-> upload[r].doc, writer |-> r]]
    /\ pc' = [pc EXCEPT ![r] = "extract"]
    /\ UNCHANGED <<upload, work, db>>
    /\ UNCHANGED <<reports, textVars>>

\* line 209: file.save raises: the path is the folder itself when the secure
\* name is empty, or the file cannot be opened; no file is left behind
SaveRaises(r) ==
    /\ pc[r] = "save"
    /\ pc' = [pc EXCEPT ![r] = "failed"]
    /\ UNCHANGED <<upload, uploads, work, db>>
    /\ UNCHANGED <<reports, textVars>>

\* lines 179-180, 188-190: the text is read from whatever file_path holds
\* now; when there is no file or fitz cannot open it, the except branch
\* returns the error result
ExtractText(r) ==
    /\ pc[r] = "extract"
    /\ LET f == uploads[work[r].filename]
           raw_text == extract_text_with_fitz(f.doc)
       IN  IF f = NoFile \/ raw_text = Unreadable
           THEN /\ work' = [work EXCEPT ![r].read_from = f.writer,
                                        ![r].raised = "extract_text_from_pdf",
                                        ![r].result = ErrorResult("extract_text_from_pdf")]
                /\ pc' = [pc EXCEPT ![r] = "log"]
           ELSE /\ work' = [work EXCEPT ![r].read_from = f.writer,
                                        ![r].full_text = extract_text_from_pdf(raw_text)]
                /\ pc' = [pc EXCEPT ![r] = "locate"]
    /\ UNCHANGED <<upload, uploads, db>>
    /\ UNCHANGED <<reports, textVars>>

\* line 181
LocateAbstract(r) ==
    /\ pc[r] = "locate"
    /\ work' = [work EXCEPT ![r].abstract = extract_abstract(work[r].full_text)]
    /\ pc' = [pc EXCEPT ![r] = "classify"]
    /\ UNCHANGED <<upload, uploads, db>>
    /\ UNCHANGED <<reports, textVars>>

\* lines 181, 188-190: an exception out of extract_abstract (MemoryError,
\* say) is caught like one out of the text extraction
LocateRaises(r) ==
    /\ pc[r] = "locate"
    /\ work' = [work EXCEPT ![r].raised = "extract_abstract",
                            ![r].result = ErrorResult("extract_abstract")]
    /\ pc' = [pc EXCEPT ![r] = "log"]
    /\ UNCHANGED <<upload, uploads, db>>
    /\ UNCHANGED <<reports, textVars>>

\* lines 182-187: the classifier is called and the success result returned
Classify(r) ==
    /\ pc[r] = "classify"
    /\ \E resp \in Responses :
          work' = [work EXCEPT ![r].calls = @ + 1,
                               ![r].response = resp,
                               ![r].result = SuccessResult(work[r].abstract,
                                                           classify_with_aurora(resp))]
    /\ pc' = [pc EXCEPT ![r] = "log"]
    /\ UNCHANGED <<upload, uploads, db>>
    /\ UNCHANGED <<reports, textVars>>

\* lines 212-217 and log_upload: a row is inserted and its id returned
LogOk(r) ==
    /\ pc[r] = "log"
    /\ db' = Append(db, [filename |-> work[r].filename, sdg |-> SdgList(work[r].result)])
    /\ work' = [work EXCEPT ![r].submission_id = Len(db) + 1]
    /\ pc' = [pc EXCEPT ![r] = "remove"]
    /\ UNCHANGED <<upload, uploads>>
    /\ UNCHANGED <<reports, textVars>>

\* line 217: log_upload raises (get_connection or the INSERT fails); the
\* handler has no try around it
LogRaises(r) ==
    /\ pc[r] = "log"
    /\ pc' = [pc EXCEPT ![r] = "failed"]
    /\ UNCHANGED <<upload, uploads, work, db>>
    /\ UNCHANGED <<reports, textVars>>

\* lines 219-221: os.remove(file_path), then the response
RemoveAndReply(r) ==
    /\ pc[r] = "remove"
    /\ uploads[work[r].filename] # NoFile
    /\ uploads' = [uploads EXCEPT ![work[r].filename] = NoFile]
    /\ work' = [work EXCEPT ![r].reply = Reply(work[r].result, work[r].submission_id)]
    /\ pc' = [pc EXCEPT ![r] = "done"]
    /\ UNCHANGED <<upload, db>>
    /\ UNCHANGED <<reports, textVars>>

\* line 219: os.remove raises FileNotFoundError when the file is gone
RemoveRaises(r) ==
    /\ pc[r] = "remove"
    /\ uploads[work[r].filename] = NoFile
    /\ pc' = [pc EXCEPT ![r] = "failed"]
    /\ UNCHANGED <<upload, uploads, work, db>>
    /\ UNCHANGED <<reports, textVars>>

\* drawImage and ImageReader on a path of the upload folder: they raise
\* when the file is missing or holds no image
ImageReadable(n) == uploads[n].doc = "image"

\* download_result: 400 without submission_id, 404 when no row has that id,
\* otherwise the report is built from the row and the three images (lines
\* 83, 104, 407); an image that cannot be read ends the request with the
\* exception
DownloadResult ==
    /\ Len(reports) < MaxDownloads
    /\ \E submission_id \in 0..Cardinality(Reqs) :
          reports' = Append(reports,
              IF submission_id = 0 THEN "400"
              ELSE IF submission_id > Len(db) THEN "404"
              ELSE IF \A n \in AssetNames : ImageReadable(n) THEN "sent"
              ELSE "failed")
    /\ UNCHANGED <<pc, upload, uploads, work, db>>
    /\ UNCHANGED textVars

Init == IdleText /\ InitReq

Next ==
    \/ \E r \in Reqs : Reject(r)
    \/ \E r \in Reqs : Accept(r)
    \/ \E r \in Reqs : SaveOk(r)
    \/ \E r \in Reqs : SaveRaises(r)
    \/ \E r \in Reqs : ExtractText(r)
    \/ \E r \in Reqs : LocateAbstract(r)
    \/ \E r \in Reqs : LocateRaises(r)
    \/ \E r \in Reqs : Classify(r)
    \/ \E r \in Reqs : LogOk(r)
    \/ \E r \in Reqs : LogRaises(r)
    \/ \E r \in Reqs : RemoveAndReply(r)
    \/ \E r \in Reqs : RemoveRaises(r)
    \/ DownloadResult

Spec == Init /\ [][Next]_vars

(***************************************************************************)
(* Properties of the handler (under Spec)                                  *)
(***************************************************************************)
\* C1: when a request that passed validation has ended, by a response or by
\* an exception, no file that it saved is left in the upload folder.
C1_TempFileRemoved ==
    \A r \in Reqs :
        pc[r] \in {"done", "failed"} => \A n \in FileNames : uploads[n].writer # r

\* C2: from its save to its remove, a request's path holds the file that
\* this request wrote (not overwritten, not deleted by another request),
\* and the text a request extracts is read from the file it wrote.
C2_OwnFile ==
    \A r \in Reqs :
        /\ pc[r] \in {"extract", "locate", "classify", "log", "remove"}
               => uploads[work[r].filename].writer = r
        /\ work[r].read_from \in {"none", r}

\* C3: when the classifier call fails (a status other than 200, an exception
\* of the call, an answer that cannot be read), process_single_pdf takes no
\* except branch and returns status "success" with the extracted abstract
\* and an empty sdg mapping.
C3_ClassifierFailureAbsorbed ==
    \A r \in Reqs :
        (/\ work[r].response # NoResponse
         /\ (work[r].response.kind # "answer" \/ work[r].response.status_code # 200))
        => /\ work[r].raised = "none"
           /\ work[r].abstract # NoValue
           /\ work[r].result =
                 [status |-> "success", abstract |-> work[r].abstract, sdg |-> {}]

\* a request answered 500 by the classifier and still replying its abstract
C3_Witness ==
    \E r \in Reqs :
        /\ work[r].response.kind = "answer"
        /\ work[r].response.status_code = 500
        /\ pc[r] = "done"
        /\ work[r].reply.status = "success"
        /\ work[r].reply.abstract = <<120, 32, 121>>
        /\ work[r].reply.sdg = {}

\* C4: when extract_text_from_pdf or extract_abstract raises, the classifier
\* is not called, and process_single_pdf returns a result of status "error"
\* with a message and neither abstract nor sdg.
C4_ExtractionFailureIsError ==
    \A r \in Reqs :
        work[r].raised # "none"
        => /\ work[r].calls = 0
           /\ work[r].response = NoResponse
           /\ work[r].result.status = "error"
           /\ DOMAIN work[r].result = {"status", "message"}
           /\ pc[r] \in {"log", "remove", "done", "failed"}

\* a request whose document cannot be read, answered with the error result
C4_Witness ==
    \E r \in Reqs :
        /\ work[r].raised = "extract_text_from_pdf"
        /\ pc[r] = "done"
        /\ work[r].reply.status = "error"
        /\ work[r].calls = 0

\* C11: whatever the requests upload, every image that was in the upload
\* folder before them stays as it was, neither overwritten nor deleted, and
\* no /download_result fails for want of one.
C11_AssetsKept ==
    /\ \A n \in AssetNames : uploads[n] = Asset
    /\ \A k \in 1..Len(reports) : reports[k] # "failed"

(***************************************************************************)
(* Calls of the pure functions, each on an input of the bounded families   *)
(***************************************************************************)
InitText ==
    /\ text \in Inputs
    /\ phase = "input"
    /\ doc_ocr = NoValue
    /\ clean = NoValue
    /\ full_text = NoValue
    /\ abstract = NoValue
    /\ InitReq

CallRemoveIllegalChars ==
    /\ phase = "input"
    /\ clean' = remove_illegal_chars(text)
    /\ phase' = "sanitized"
    /\ UNCHANGED <<text, doc_ocr, full_text, abstract>>
    /\ UNCHANGED reqVars

CallExtractAbstract ==
    /\ phase = "input"
    /\ abstract' = extract_abstract(text)
    /\ phase' = "located"
    /\ UNCHANGED <<text, doc_ocr, clean, full_text>>
    /\ UNCHANGED reqVars

\* text is the document's text layer; ocr is what OCR would give for it
CallExtractTextFromPdf ==
    /\ phase = "input"
    /\ \E ocr \in OcrOutputs : doc_ocr' = ocr
    /\ full_text' = extract_text_from_pdf(text)
    /\ phase' = "acquired"
    /\ UNCHANGED <<text, clean, abstract>>
    /\ UNCHANGED reqVars

NextText ==
    \/ CallRemoveIllegalChars
    \/ CallExtractAbstract
    \/ CallExtractTextFromPdf

SpecText == InitText /\ [][NextText]_vars

(***************************************************************************)
(* Properties of the pure functions (under SpecText)                       *)
(***************************************************************************)
\* the stop headings of a text: the line starts at which the pattern matches
HeadingOffsets(t) == {i \in 0..(Len(t) - 1) : LineStart(t, i) /\ HeadingAt(t, i)}

Blank(t) == \A i \in 1..Len(t) : IsSpace(t[i])

\* the words of a are separated by one space each, with none around them
SingleSpaced(a) ==
    \A i \in 1..Len(a) :
        IsSpace(a[i]) => a[i] = 32 /\ i > 1 /\ i < Len(a) /\ ~IsSpace(a[i + 1])

\* the right-trimmed prefix before the first stop heading
PrefixBeforeStop(t) == RStrip(Slice(t, 0, StopStart(t)))

\* the offsets just after a run of two or more consecutive newlines
AdjacentNewlineEnds(pre) ==
    {j \in 2..Len(pre) : CharAt(pre, j - 1) = 10 /\ CharAt(pre, j - 2) = 10}

\* the offsets just after a line that holds white space only (or nothing)
\* and has a line before it
BlankLineEnds(pre) ==
    {j \in 2..Len(pre) :
        /\ CharAt(pre, j - 1) = 10
        /\ \E a \in 1..(j - 1) :
              /\ CharAt(pre, a - 1) = 10
              /\ \A k \in a..(j - 2) : IsSpace(CharAt(pre, k)) /\ CharAt(pre, k) # 10}

\* C5: when the sanitized, stripped text layer of a document has fewer than
\* 500 characters, text acquisition returns the OCR output; otherwise it
\* returns the text-layer output.
C5_OcrFallback ==
    phase = "acquired" =>
        LET primary == remove_illegal_chars(text)
        IN  IF Len(Strip(primary)) < 500
            THEN full_text = doc_ocr
            ELSE full_text = primary

\* C6: when the marker occurs and a stop heading lies after the marker's end
\* s, the result is the trimmed text from s to the start of the first stop
\* heading after s.
C6_MarkerSpan ==
    phase = "located" =>
        LET s == AbstractMatchEnd(text)
            after == {i \in HeadingOffsets(text) : i >= s}
        IN  (s >= 0 /\ after # {}) =>
                abstract = Strip(Slice(text, s, MinOf(after)))

\* C7 as stated: with no marker and a stop heading, the result is the last
\* paragraph of the right-trimmed prefix, paragraphs being separated by two
\* or more consecutive newlines; without such a boundary, the last 300 words
\* of the prefix.
C7_ConsecutiveNewlines ==
    (phase = "located" /\ AbstractMatchEnd(text) < 0 /\ StopStart(text) >= 0) =>
            LET pre == PrefixBeforeStop(text)
                B == AdjacentNewlineEnds(pre)
            IN  IF B # {}
                THEN abstract = Strip(Slice(pre, MaxOf(B), Len(pre)))
                ELSE /\ Split(abstract) = LastWords(Split(pre), 300)
                     /\ SingleSpaced(abstract)

\* C7 as amended: with no marker and a stop heading, the result is the
\* trimmed text after the last blank or white-space-only line of the
\* right-trimmed prefix; when the prefix has no such line after its first
\* line, the last 300 words of the prefix.
C7_BlankLines ==
    (phase = "located" /\ AbstractMatchEnd(text) < 0 /\ StopStart(text) >= 0) =>
            LET pre == PrefixBeforeStop(text)
                B == BlankLineEnds(pre)
            IN  IF B # {}
                THEN abstract = Strip(Slice(pre, MaxOf(B), Len(pre)))
                ELSE /\ Split(abstract) = LastWords(Split(pre), 300)
                     /\ SingleSpaced(abstract)

\* a text without marker whose last paragraph follows a line of white space
\* that is not empty, and is shorter than the prefix
C7_Witness ==
    /\ phase = "located"
    /\ AbstractMatchEnd(text) < 0
    /\ StopStart(text) >= 0
    /\ BlankLineEnds(PrefixBeforeStop(text)) # {}
    /\ AdjacentNewlineEnds(PrefixBeforeStop(text)) = {}
    /\ abstract # <<>>
    /\ Len(Split(abstract)) < Len(Split(PrefixBeforeStop(text)))

Region(t) ==
    LET s == AbstractMatchEnd(t)
    IN  IF s >= 0
        THEN LET e == StopStart(Slice(t, s, Len(t)))
             IN  IF e >= 0 THEN Slice(t, s, s + e) ELSE Slice(t, s, Len(t))
        ELSE IF StopStart(t) >= 0 THEN Slice(t, 0, StopStart(t)) ELSE t

\* C9 as stated: the result is a string, and it is empty only when the text
\* is empty.
C9_EmptyOnlyForEmptyText ==
    phase = "located" =>
        /\ abstract # NoValue
        /\ abstract = <<>> => text = <<>>

\* C9 as amended: the result is a string; it is empty exactly when the part
\* of the text it is taken from (between the marker and the next stop
\* heading, after the marker, before the first stop heading, or the whole
\* text) holds no character other than white space, as for the empty text.
C9_EmptyIffBlankRegion ==
    phase = "located" =>
        /\ abstract # NoValue
        /\ abstract = <<>> <=> Blank(Region(text))
        /\ text = <<>> => abstract = <<>>

\* a text with words in it whose abstract is empty
C9_Witness ==
    /\ phase = "located"
    /\ ~Blank(text)
    /\ abstract = <<>>

\* the illegal control set: U+0000-U+0008, U+000B, U+000C, U+000E-U+001F, U+007F
IllegalSet == (0..8) \cup {11, 12} \cup (14..31) \cup {127}

\* t with the characters of S taken out, the others in their order
Without(t, S) ==
    LET kept == SelectSeq([i \in 1..Len(t) |-> i], LAMBDA i : t[i] \notin S)
    IN  [k \in 1..Len(kept) |-> t[kept[k]]]

\* C10: remove_illegal_chars returns the input without the characters of the
\* illegal control set and with the others in their order: the output is
\* no longer than the input, holds no illegal character, and sanitizing it
\* again changes nothing.
C10_Sanitize ==
    phase = "sanitized" =>
        /\ clean = Without(text, IllegalSet)
        /\ Len(clean) <= Len(text)
        /\ \A i \in 1..Len(clean) : clean[i] \notin IllegalSet
        /\ remove_illegal_chars(clean) = clean

\* a text with illegal and legal characters, sanitized to something shorter
C10_Witness ==
    /\ phase = "sanitized"
    /\ \E i \in 1..Len(text) : text[i] \in IllegalSet
    /\ clean # <<>>
    /\ Len(clean) < Len(text)

====
